---------------------------- MODULE Spec2Model ----------------------------
(***************************************************************************)
(* A model of the LC-3 virtual machine of src/src/vm.rs: the register      *)
(* file and the 65536-word memory of struct Vm, the image loader, the run  *)
(* loop of main and the sixteen opcode handlers with the trap table.       *)
(*                                                                         *)
(* Words are naturals below 2^16.  The memory array is zero-initialised,   *)
(* so it is kept as a function on the addresses that hold a non-zero word. *)
(* An integer addition the code writes in u16 overflows by panicking when  *)
(* the build has overflow checks (a debug build) and by wrapping when it   *)
(* has not (a release build); overflow_checks is the build's choice.       *)
(***************************************************************************)
EXTENDS Integers, Naturals, Sequences, FiniteSets, TLC

VARIABLES
    reg,              \* Vm.reg: R0..R7, PC, COND
    mem,              \* Vm.mem, on the addresses holding a non-zero word
    oob,              \* bytes read_image wrote past the end of Vm.mem
    stdin,            \* the bytes standard input still holds
    stdout,           \* what was printed, in order
    status,           \* where main is: "load", "run", or how it ended
    overflow_checks,  \* the build: TRUE when integer overflow panics
    nimages,          \* image arguments read so far
    result,           \* what the last read_image returned
    image,            \* the file the last read_image was given
    instruction,      \* the word the last fetch returned (-1: none)
    op,               \* the handler the last step dispatched to ("": none)
    reads,            \* the calls of mem_read in the last step: address, word returned
    polls,            \* the calls of handle_keyboard in the last step: status written
    steps,            \* iterations of the run loop so far
    se_x,             \* sign_extend called on its own: the value,
    se_bits,          \*   the bit count,
    se_ret,           \*   what it returned (-1: it panicked),
    se_done           \*   and whether the call was made

vars == <<reg, mem, oob, stdin, stdout, status, overflow_checks, nimages,
          result, image, instruction, op, reads, polls, steps,
          se_x, se_bits, se_ret, se_done>>

machine_vars == <<reg, mem, oob, stdin, stdout, status, nimages,
                  result, image, instruction, op, reads, polls, steps>>

se_vars == <<se_x, se_bits, se_ret, se_done>>

(***************************************************************************)
(* Bounds of the model.                                                    *)
(***************************************************************************)
MaxImages == 1
MaxInput == 1
MaxSteps == 6

(***************************************************************************)
(* u16 arithmetic.                                                         *)
(***************************************************************************)
WORD_MOD == 65536

Word == 0 .. (WORD_MOD - 1)

\* x >> n
Shr(x, n) == x \div (2 ^ n)

\* x << n on u16, n below 16: the bits shifted out are dropped
Shl16(x, n) == (x * (2 ^ n)) % WORD_MOD

RECURSIVE BitAnd(_, _)
\* x & y
BitAnd(x, y) ==
    IF x = 0 \/ y = 0 THEN 0
    ELSE (x % 2) * (y % 2) + 2 * BitAnd(x \div 2, y \div 2)

\* x | y
BitOr(x, y) == x + y - BitAnd(x, y)

\* !x on u16
BitNot16(x) == (WORD_MOD - 1) - x

\* (a as u32 + b as u32) as u16
WrapAdd(a, b) == (a + b) % WORD_MOD

(***************************************************************************)
(* Vm::sign_extend.  0xFFFF << bit_count is a u16 shift: with bit_count    *)
(* 16 it overflows, which panics under overflow checks and otherwise       *)
(* shifts by bit_count masked to four bits.  -1 stands for the panic.      *)
(***************************************************************************)
sign_extend(x, bit_count) ==
    IF BitAnd(Shr(x, bit_count - 1), 1) # 0
    THEN IF bit_count >= 16
         THEN IF overflow_checks THEN -1
              ELSE BitOr(x, Shl16(\hFFFF, bit_count % 16))
         ELSE BitOr(x, Shl16(\hFFFF, bit_count))
    ELSE x

\* Vm::swap16
swap16(x) == BitOr(Shl16(x, 8), Shr(x, 8))

(***************************************************************************)
(* The enums of the source.                                                *)
(***************************************************************************)
R_R0 == 0
R_R7 == 7
R_PC == 8
R_COND == 9
R_COUNT == 10

FL_POS == 1
FL_ZRO == 2
FL_NEG == 4

MR_KBSR == \hFE00
MR_KBDR == \hFE02

MEM_MAX == 65536

PC_START == \h3000

\* Operators::from
Operators_from(val) ==
    CASE val = 0 -> "BR"
      [] val = 1 -> "ADD"
      [] val = 2 -> "LD"
      [] val = 3 -> "ST"
      [] val = 4 -> "JSR"
      [] val = 5 -> "AND"
      [] val = 6 -> "LDR"
      [] val = 7 -> "STR"
      [] val = 8 -> "RTI"
      [] val = 9 -> "NOT"
      [] val = 10 -> "LDI"
      [] val = 11 -> "STI"
      [] val = 12 -> "JMP"
      [] val = 13 -> "RES"
      [] val = 14 -> "LEA"
      [] val = 15 -> "TRAP"
      [] OTHER -> "Err"

\* TRAP::from taking one vector more
TRAP_from_x26(val) ==
    CASE val = \h20 -> "GETC"
      [] val = \h21 -> "OUT"
      [] val = \h22 -> "PUTS"
      [] val = \h23 -> "IN"
      [] val = \h24 -> "PUTSP"
      [] val = \h25 -> "HALT"
      [] val = \h26 -> "OUT"
      [] OTHER -> "Err"

\* TRAP::from
TRAP_from(val) ==
    CASE val = \h20 -> "GETC"
      [] val = \h21 -> "OUT"
      [] val = \h22 -> "PUTS"
      [] val = \h23 -> "IN"
      [] val = \h24 -> "PUTSP"
      [] val = \h25 -> "HALT"
      [] OTHER -> "Err"

(***************************************************************************)
(* Machine state.  A handler is a function of the machine S, a record of   *)
(* reg, mem, stdin, stdout, status, reads and polls; a panic leaves        *)
(* status "panic" and nothing after it in the handler runs.                *)
(***************************************************************************)
MemGet(m, a) == IF a \in DOMAIN m THEN m[a] ELSE 0

MemSet(m, a, v) ==
    IF v = 0
    THEN [x \in (DOMAIN m) \ {a} |-> m[x]]
    ELSE [x \in (DOMAIN m) \cup {a} |-> IF x = a THEN v ELSE m[x]]

panic(S) == [S EXCEPT !.status = "panic"]

RECURSIVE utf8(_)
\* the bytes "{}" formats a sequence of chars to; the chars are below 256:
\* one byte for a char below 128 and two for the others
utf8(chars) ==
    IF chars = <<>> THEN <<>>
    ELSE LET c == Head(chars)
         IN  (IF c < 128 THEN <<c>> ELSE <<192 + (c \div 64), 128 + (c % 64)>>)
             \o utf8(Tail(chars))

\* print!("{}", c as char), and the literal texts: stdout holds bytes
print(S, chars) == [S EXCEPT !.stdout = @ \o utf8(chars)]

\* update_flags without its NEG branch
update_flags_no_neg(S, register) ==
    IF S.reg[register] = 0
    THEN [S EXCEPT !.reg[R_COND] = FL_ZRO]
    ELSE [S EXCEPT !.reg[R_COND] = FL_POS]

\* Vm::update_flags
update_flags(S, register) ==
    IF S.reg[register] = 0
    THEN [S EXCEPT !.reg[R_COND] = FL_ZRO]
    ELSE IF Shr(S.reg[register], 15) # 0
         THEN [S EXCEPT !.reg[R_COND] = FL_NEG]
         ELSE [S EXCEPT !.reg[R_COND] = FL_POS]

\* Vm::mem_write
mem_write(S, address, val) == [S EXCEPT !.mem = MemSet(@, address, val)]

\* Vm::handle_keyboard: read_exact of one byte, unwrapped.  polls records
\* the status word written, -1 when the read failed and the unwrap panicked
handle_keyboard(S) ==
    IF S.stdin = <<>>
    THEN [panic(S) EXCEPT !.polls = Append(@, -1)]
    ELSE LET buffer == Head(S.stdin)
             S1 == [S EXCEPT !.stdin = Tail(@)]
         IN  IF buffer # 0
             THEN [S1 EXCEPT
                      !.mem = MemSet(MemSet(@, MR_KBSR, Shl16(1, 15)),
                                     MR_KBDR, buffer),
                      !.polls = Append(@, Shl16(1, 15))]
             ELSE [S1 EXCEPT !.mem = MemSet(@, MR_KBSR, 0),
                             !.polls = Append(@, 0)]

\* mem_read returning the word as it was before the poll
mem_read_stale(S, address) ==
    LET S1 == IF address = MR_KBSR THEN handle_keyboard(S) ELSE S
        word == IF S1.status = "run" THEN MemGet(S.mem, address) ELSE -1
    IN  [s |-> [S1 EXCEPT !.reads = Append(@, [addr |-> address, val |-> word])],
         val |-> word]

\* Vm::mem_read: the machine after the read, and the word read.  reads
\* records the address and the word returned, -1 when the poll panicked
mem_read(S, address) ==
    LET S1 == IF address = MR_KBSR THEN handle_keyboard(S) ELSE S
        word == IF S1.status = "run" THEN MemGet(S1.mem, address) ELSE -1
    IN  [s |-> [S1 EXCEPT !.reads = Append(@, [addr |-> address, val |-> word])],
         val |-> word]

(***************************************************************************)
(* The instruction handlers.                                               *)
(***************************************************************************)
\* br taking the branch whatever COND holds
br_unconditional(S, instr) ==
    LET pc_offset == sign_extend(BitAnd(instr, \h1FF), 9)
    IN  [S EXCEPT !.reg[R_PC] = WrapAdd(S.reg[R_PC], pc_offset)]

\* Vm::br
br(S, instr) ==
    LET pc_offset == sign_extend(BitAnd(instr, \h1FF), 9)
        cond_flag == BitAnd(Shr(instr, 9), 7)
    IN  IF BitAnd(cond_flag, S.reg[R_COND]) # 0
        THEN [S EXCEPT !.reg[R_PC] = WrapAdd(S.reg[R_PC], pc_offset)]
        ELSE S

\* add with the immediate not sign-extended
add_raw_imm(S, instr) ==
    LET dest == BitAnd(Shr(instr, 9), 7)
        op1 == BitAnd(Shr(instr, 6), 7)
        imm_flag == BitAnd(Shr(instr, 5), 1)
        imm == BitAnd(instr, \h1F)
        op2 == BitAnd(instr, 7)
        S1 == IF imm_flag = 1
              THEN [S EXCEPT !.reg[dest] = WrapAdd(S.reg[op1], imm)]
              ELSE [S EXCEPT !.reg[dest] = WrapAdd(S.reg[op1], S.reg[op2])]
    IN  update_flags(S1, dest)

\* Vm::add
add(S, instr) ==
    LET dest == BitAnd(Shr(instr, 9), 7)
        op1 == BitAnd(Shr(instr, 6), 7)
        imm_flag == BitAnd(Shr(instr, 5), 1)
        imm == sign_extend(BitAnd(instr, \h1F), 5)
        op2 == BitAnd(instr, 7)
        S1 == IF imm_flag = 1
              THEN [S EXCEPT !.reg[dest] = WrapAdd(S.reg[op1], imm)]
              ELSE [S EXCEPT !.reg[dest] = WrapAdd(S.reg[op1], S.reg[op2])]
    IN  update_flags(S1, dest)

\* Vm::ld
ld(S, instr) ==
    LET r0 == BitAnd(Shr(instr, 9), 7)
        pc_offset == sign_extend(BitAnd(instr, \h1FF), 9)
        rd == mem_read(S, WrapAdd(S.reg[R_PC], pc_offset))
    IN  IF rd.s.status # "run" THEN rd.s
        ELSE update_flags([rd.s EXCEPT !.reg[r0] = rd.val], r0)

\* st ending in update_flags(r0)
st_sets_flags(S, instr) ==
    LET r0 == BitAnd(Shr(instr, 9), 7)
        pc_offset == sign_extend(BitAnd(instr, \h1FF), 9)
    IN  update_flags(mem_write(S, WrapAdd(S.reg[R_PC], pc_offset), S.reg[r0]),
                     r0)

\* Vm::st
st(S, instr) ==
    LET r0 == BitAnd(Shr(instr, 9), 7)
        pc_offset == sign_extend(BitAnd(instr, \h1FF), 9)
    IN  mem_write(S, WrapAdd(S.reg[R_PC], pc_offset), S.reg[r0])

\* jsr reading the base register before it writes R7
jsr_base_first(S, instr) ==
    LET long_flag == BitAnd(Shr(instr, 11), 1)
        S1 == [S EXCEPT !.reg[R_R7] = S.reg[R_PC]]
        long_pc_offset == sign_extend(BitAnd(instr, \h7FF), 11)
        r1 == BitAnd(Shr(instr, 6), 7)
    IN  IF long_flag # 0
        THEN [S1 EXCEPT !.reg[R_PC] = WrapAdd(S1.reg[R_PC], long_pc_offset)]
        ELSE [S1 EXCEPT !.reg[R_PC] = S.reg[r1]]

\* jsr ending in update_flags(R7)
jsr_updates_flags(S, instr) ==
    LET long_flag == BitAnd(Shr(instr, 11), 1)
        S1 == [S EXCEPT !.reg[R_R7] = S.reg[R_PC]]
        long_pc_offset == sign_extend(BitAnd(instr, \h7FF), 11)
        r1 == BitAnd(Shr(instr, 6), 7)
    IN  IF long_flag # 0
        THEN update_flags([S1 EXCEPT !.reg[R_PC] =
                              WrapAdd(S1.reg[R_PC], long_pc_offset)], R_R7)
        ELSE update_flags([S1 EXCEPT !.reg[R_PC] = S1.reg[r1]], R_R7)

\* Vm::jsr
jsr(S, instr) ==
    LET long_flag == BitAnd(Shr(instr, 11), 1)
        S1 == [S EXCEPT !.reg[R_R7] = S.reg[R_PC]]
        long_pc_offset == sign_extend(BitAnd(instr, \h7FF), 11)
        r1 == BitAnd(Shr(instr, 6), 7)
    IN  IF long_flag # 0
        THEN [S1 EXCEPT !.reg[R_PC] = WrapAdd(S1.reg[R_PC], long_pc_offset)]
        ELSE [S1 EXCEPT !.reg[R_PC] = S1.reg[r1]]

\* Vm::and
and(S, instr) ==
    LET r0 == BitAnd(Shr(instr, 9), 7)
        r1 == BitAnd(Shr(instr, 6), 7)
        imm_flag == BitAnd(Shr(instr, 5), 1)
        imm == sign_extend(BitAnd(instr, \h1F), 5)
        r2 == BitAnd(instr, 7)
        S1 == IF imm_flag = 1
              THEN [S EXCEPT !.reg[r0] = BitAnd(S.reg[r1], imm)]
              ELSE [S EXCEPT !.reg[r0] = BitAnd(S.reg[r1], S.reg[r2])]
    IN  update_flags(S1, r0)

\* Vm::ldr: the address is a u16 sum
ldr(S, instr) ==
    LET r0 == BitAnd(Shr(instr, 9), 7)
        r1 == BitAnd(Shr(instr, 6), 7)
        offset == sign_extend(BitAnd(instr, \h3F), 6)
    IN  IF overflow_checks /\ S.reg[r1] + offset >= WORD_MOD
        THEN panic(S)
        ELSE LET rd == mem_read(S, WrapAdd(S.reg[r1], offset))
             IN  IF rd.s.status # "run" THEN rd.s
                 ELSE update_flags([rd.s EXCEPT !.reg[r0] = rd.val], r0)

\* Vm::str
str(S, instr) ==
    LET r0 == BitAnd(Shr(instr, 9), 7)
        r1 == BitAnd(Shr(instr, 6), 7)
        offset == sign_extend(BitAnd(instr, \h3F), 6)
    IN  mem_write(S, WrapAdd(S.reg[r1], offset), S.reg[r0])

\* Vm::not
not(S, instr) ==
    LET r0 == BitAnd(Shr(instr, 9), 7)
        r1 == BitAnd(Shr(instr, 6), 7)
    IN  update_flags([S EXCEPT !.reg[r0] = BitNot16(S.reg[r1])], r0)

\* Vm::ldi: the first address is a u16 sum
ldi(S, instr) ==
    LET r0 == BitAnd(Shr(instr, 9), 7)
        pc_offset == sign_extend(BitAnd(instr, \h1FF), 9)
    IN  IF overflow_checks /\ S.reg[R_PC] + pc_offset >= WORD_MOD
        THEN panic(S)
        ELSE LET temp == mem_read(S, WrapAdd(S.reg[R_PC], pc_offset))
             IN  IF temp.s.status # "run" THEN temp.s
                 ELSE LET rd == mem_read(temp.s, temp.val)
                      IN  IF rd.s.status # "run" THEN rd.s
                          ELSE update_flags([rd.s EXCEPT !.reg[r0] = rd.val], r0)

\* Vm::sti
sti(S, instr) ==
    LET r0 == BitAnd(Shr(instr, 9), 7)
        pc_offset == sign_extend(BitAnd(instr, \h1FF), 9)
        temp == mem_read(S, WrapAdd(S.reg[R_PC], pc_offset))
    IN  IF temp.s.status # "run" THEN temp.s
        ELSE mem_write(temp.s, temp.val, temp.s.reg[r0])

\* Vm::jmp
jmp(S, instr) ==
    LET r1 == BitAnd(Shr(instr, 6), 7)
    IN  [S EXCEPT !.reg[R_PC] = S.reg[r1]]

\* Vm::lea
lea(S, instr) ==
    LET r0 == BitAnd(Shr(instr, 9), 7)
        pc_offset == sign_extend(BitAnd(instr, \h1FF), 9)
    IN  update_flags([S EXCEPT !.reg[r0] = WrapAdd(S.reg[R_PC], pc_offset)], r0)

(***************************************************************************)
(* The texts the program prints, as character codes.                       *)
(***************************************************************************)
\* "Halt\n"
TXT_HALT == <<72, 97, 108, 116, 10>>

\* "Ended due to invalid instruction\n"
TXT_INVALID ==
    <<69, 110, 100, 101, 100, 32, 100, 117, 101, 32, 116, 111, 32, 105, 110, 118, 97, 108, 105, 100, 32, 105, 110, 115, 116, 114, 117, 99, 116, 105, 111, 110, 10>>

\* "Enter a character :"
TXT_PROMPT ==
    <<69, 110, 116, 101, 114, 32, 97, 32, 99, 104, 97, 114, 97, 99, 116, 101, 114, 32, 58>>

\* "Read count: "
TXT_READ_COUNT == <<82, 101, 97, 100, 32, 99, 111, 117, 110, 116, 58, 32>>

\* "Failed to read from "
TXT_FAILED_READ ==
    <<70, 97, 105, 108, 101, 100, 32, 116, 111, 32, 114, 101, 97, 100, 32, 102, 114, 111, 109, 32>>

RECURSIVE Decimal(_)
\* "{}" of a usize
Decimal(n) ==
    IF n < 10 THEN <<48 + n>>
    ELSE Decimal(n \div 10) \o <<48 + (n % 10)>>

(***************************************************************************)
(* Vm::trap.  The two string loops advance index in u16.                   *)
(***************************************************************************)
RECURSIVE puts_loop(_, _, _)
\* the while loop of TRAP::PUTS, entered with the word c read at index
puts_loop(S, index, c) ==
    IF c = 0 THEN S
    ELSE LET S1 == print(S, <<c % 256>>)
         IN  IF overflow_checks /\ index + 1 >= WORD_MOD
             THEN panic(S1)
             ELSE LET rd == mem_read(S1, WrapAdd(index, 1))
                  IN  IF rd.s.status # "run" THEN rd.s
                      ELSE puts_loop(rd.s, WrapAdd(index, 1), rd.val)

RECURSIVE putsp_loop(_, _, _)
\* the while loop of TRAP::PUTSP
putsp_loop(S, index, c) ==
    IF c = 0 THEN S
    ELSE LET c1 == BitAnd(c, \hFF) % 256
             c2 == Shr(c, 8) % 256
             S1 == print(S, IF c2 # 0 THEN <<c1, c2>> ELSE <<c1>>)
         IN  IF overflow_checks /\ index + 1 >= WORD_MOD
             THEN panic(S1)
             ELSE LET rd == mem_read(S1, WrapAdd(index, 1))
                  IN  IF rd.s.status # "run" THEN rd.s
                      ELSE putsp_loop(rd.s, WrapAdd(index, 1), rd.val)

\* Vm::trap
trap(S, instr) ==
    LET S1 == [S EXCEPT !.reg[R_R7] = S.reg[R_PC]]
        vector == TRAP_from(BitAnd(instr, \hFF))
    IN  CASE vector = "GETC" ->
                IF S1.stdin = <<>> THEN panic(S1)
                ELSE [S1 EXCEPT !.reg[R_R0] = Head(S1.stdin),
                                !.stdin = Tail(@)]
          [] vector = "OUT" ->
                print(S1, <<S1.reg[R_R0] % 256>>)
          [] vector = "PUTS" ->
                LET rd == mem_read(S1, S1.reg[R_R0])
                IN  IF rd.s.status # "run" THEN rd.s
                    ELSE puts_loop(rd.s, S1.reg[R_R0], rd.val)
          [] vector = "IN" ->
                LET S2 == print(S1, TXT_PROMPT)
                IN  IF S2.stdin = <<>> THEN panic(S2)
                    ELSE [S2 EXCEPT !.reg[R_R0] = Head(S2.stdin),
                                    !.stdin = Tail(@)]
          [] vector = "PUTSP" ->
                LET rd == mem_read(S1, S1.reg[R_R0])
                IN  IF rd.s.status # "run" THEN rd.s
                    ELSE putsp_loop(rd.s, S1.reg[R_R0], rd.val)
          [] vector = "HALT" ->
                [print(S1, TXT_HALT) EXCEPT !.status = "halt"]
          [] OTHER ->
                [print(S1, TXT_INVALID) EXCEPT !.status = "bad_trap"]

(***************************************************************************)
(* Vm::read_image.  An image file is its bytes; the host is little-endian, *)
(* so a byte pair read into a u16 has its first byte low.  The file is     *)
(* small enough for one read call to return all that fits the slice.       *)
(* The slice starts at mem[origin] and is MEM_MAX*2 - origin bytes long,   *)
(* which is origin bytes more than the array holds from there; the bytes   *)
(* read past the array are counted in oob, and the indexed swap that       *)
(* follows panics on the first word outside the array.                     *)
(***************************************************************************)
Min(a, b) == IF a <= b THEN a ELSE b

Max(a, b) == IF a >= b THEN a ELSE b

\* the function m without its zero words
NonZero(m) == [a \in {x \in DOMAIN m : m[x] # 0} |-> m[a]]

read_image(m, file) ==
    LET n == Len(file)
        limit == MEM_MAX * 2
        n0 == Min(2, Min(n, limit))
        origin_raw == (IF n >= 1 THEN file[1] ELSE 0)
                      + 256 * (IF n >= 2 THEN file[2] ELSE 0)
        origin == swap16(origin_raw)
        slice_len == MEM_MAX * 2 - origin
        res == Min(n - n0, Min(slice_len, limit - n0))
        cap == MEM_MAX - origin
        count == (res + 1) \div 2
        stored == Min(count, cap)
        \* word i of the slice after the read, before the swap
        raw(i) == file[n0 + 2 * i + 1]
                  + 256 * (IF 2 * i + 2 <= res THEN file[n0 + 2 * i + 2]
                           ELSE Shr(MemGet(m, origin + i), 8))
        touched == {origin + i : i \in 0 .. (stored - 1)}
        m2 == [a \in (DOMAIN m) \cup touched |->
                  IF a \in touched THEN swap16(raw(a - origin)) ELSE m[a]]
    IN  IF origin > MEM_MAX
        THEN [mem |-> m, oob |-> 0, ok |-> FALSE, result |-> 0]
        ELSE [mem |-> NonZero(m2),
              oob |-> Max(0, res - 2 * cap),
              ok |-> count <= cap,
              result |-> res]

\* Vm::new, and PC set by main
NewReg == [r \in 0 .. (R_COUNT - 1) |-> IF r = R_PC THEN PC_START ELSE 0]

(***************************************************************************)
(* The inputs: image files and standard input.                             *)
(***************************************************************************)
\* instruction words, by their fields
I_BR(nzp, off9) == nzp * 512 + off9
I_ADD(dr, sr1, sr2) == \h1000 + dr * 512 + sr1 * 64 + sr2
I_ADDI(dr, sr1, imm5) == \h1000 + dr * 512 + sr1 * 64 + 32 + imm5
I_LD(dr, off9) == \h2000 + dr * 512 + off9
I_ST(sr, off9) == \h3000 + sr * 512 + off9
I_JSR(off11) == \h4800 + off11
I_JSRR(base) == \h4000 + base * 64
I_AND(dr, sr1, sr2) == \h5000 + dr * 512 + sr1 * 64 + sr2
I_ANDI(dr, sr1, imm5) == \h5000 + dr * 512 + sr1 * 64 + 32 + imm5
I_LDR(dr, base, off6) == \h6000 + dr * 512 + base * 64 + off6
I_STR(sr, base, off6) == \h7000 + sr * 512 + base * 64 + off6
I_RTI == \h8000
I_NOT(dr, sr) == \h9000 + dr * 512 + sr * 64 + 63
I_LDI(dr, off9) == \hA000 + dr * 512 + off9
I_STI(sr, off9) == \hB000 + sr * 512 + off9
I_JMP(base) == \hC000 + base * 64
I_RES == \hD000
I_LEA(dr, off9) == \hE000 + dr * 512 + off9
I_TRAP(vec) == \hF000 + vec

RECURSIVE BigEndian(_)
\* the bytes of a sequence of words, high byte first
BigEndian(words) ==
    IF words = <<>> THEN <<>>
    ELSE <<Head(words) \div 256, Head(words) % 256>> \o BigEndian(Tail(words))

\* an image file: the origin, then the words
Image(origin, words) == BigEndian(<<origin>> \o words)

\* a program at 0x3000 that stores word at addr, with R1 = addr and
\* R2 = word, and jumps there
Trampoline(addr, word) ==
    Image(PC_START, <<I_LD(1, 3), I_LD(2, 3), I_STR(2, 1, 0), I_JMP(1),
                      addr, word>>)

\* TRAP x25
I_HALT == I_TRAP(\h25)

ArithmeticImages ==
    { Image(PC_START, <<I_ADDI(1, 1, 5), I_ADDI(0, 1, 31), I_HALT>>),
      Image(PC_START, <<I_ADDI(1, 1, 31), I_ADD(1, 1, 1), I_ADDI(1, 1, 2),
                        I_ADD(2, 1, 0), I_HALT>>),
      Image(PC_START, <<I_NOT(1, 0), I_ANDI(2, 1, 21), I_AND(3, 1, 2),
                        I_ANDI(3, 1, 0), I_NOT(4, 1), I_HALT>>),
      Image(PC_START, <<I_LEA(1, 511), I_LEA(2, 0), I_ADD(3, 1, 2), I_HALT>>),
      Trampoline(\hFFFF, I_LEA(3, 0)),
      Trampoline(\hFDFF, I_LEA(3, 1)) }

LoadStoreImages ==
    { Image(PC_START, <<I_LD(1, 2), I_LD(2, 2), I_HALT, \h8001, \h0042>>),
      Image(PC_START, <<I_LD(1, 511)>>),
      Image(PC_START, <<I_LEA(1, 2), I_LDR(2, 1, 1), I_LDR(3, 1, 63), I_HALT,
                        \h1234>>),
      Image(PC_START, <<I_LDI(1, 2), I_LDI(2, 510), I_HALT, \h3004, \h8123>>),
      Image(PC_START, <<I_JSR(1), \h3003, I_LDI(1, 510), \h8123, I_HALT>>),
      Image(PC_START, <<I_ADDI(1, 1, 7), I_ST(1, 1), I_HALT, 0>>),
      Image(PC_START, <<I_ADDI(1, 1, 7), I_STI(1, 1), I_HALT, \h4000>>),
      Image(PC_START, <<I_ST(0, 511), I_LEA(1, 1), I_STR(1, 1, 63)>>) }

KeyboardImages ==
    { Image(PC_START, <<I_LD(1, 1), I_JMP(1), MR_KBSR>>),
      Image(PC_START, <<I_LD(1, 2), I_LDR(2, 1, 0), I_HALT, MR_KBSR>>),
      Image(PC_START, <<I_LDI(1, 1), I_HALT, MR_KBSR>>),
      Image(PC_START, <<I_LD(0, 2), I_TRAP(\h22), I_HALT, MR_KBSR>>),
      Image(PC_START, <<I_LD(0, 2), I_TRAP(\h24), I_HALT, MR_KBSR>>),
      Trampoline(MR_KBSR - 1, I_LD(3, 0)),
      Trampoline(MR_KBSR - 1, I_LDI(3, 0)),
      Trampoline(MR_KBSR - 1, I_STI(2, 0)),
      Trampoline(MR_KBSR, I_RES) }

ControlImages ==
    { Image(PC_START, <<I_RTI, I_RES, I_HALT>>),
      Trampoline(\hFFFF, I_RTI),
      Trampoline(\hFFFF, I_RES),
      Image(PC_START, <<I_JSR(1), I_HALT, I_JSRR(7), I_HALT>>),
      Image(PC_START, <<I_JSR(2047)>>),
      Image(PC_START, <<I_ADDI(1, 1, 31), I_JSR(0), I_LEA(2, 2), I_JSRR(2),
                        I_HALT>>),
      Image(PC_START, <<I_ADDI(1, 1, 1), I_BR(1, 1), I_HALT, I_HALT>>),
      Image(PC_START, <<I_BR(7, 5), I_ADDI(0, 0, 0), I_BR(4, 1), I_BR(2, 511)>>) }

TrapImages ==
    { Image(PC_START, <<I_HALT, I_ADDI(1, 1, 5)>>),
      Image(PC_START, <<I_TRAP(\h125), I_ADDI(1, 1, 5)>>),
      Image(PC_START, <<I_TRAP(\h20), I_TRAP(\h21), I_HALT>>),
      Image(PC_START, <<I_ADDI(1, 1, 31), I_TRAP(\h23), I_TRAP(\h21), I_HALT>>),
      Image(PC_START, <<I_LEA(0, 2), I_TRAP(\h22), I_HALT, \h48, \h69, 0>>),
      Image(PC_START, <<I_LEA(0, 2), I_TRAP(\h22), I_HALT, \h41, \h1E9, 0>>),
      Image(PC_START, <<I_LEA(0, 2), I_TRAP(\h24), I_HALT, \h6948, \h21, 0>>),
      Image(PC_START, <<I_TRAP(0), I_ADDI(1, 1, 5)>>),
      Image(PC_START, <<I_LEA(7, 5), I_TRAP(\h26), I_ADDI(1, 1, 5)>>),
      Image(PC_START, <<I_ADDI(1, 1, 5), I_TRAP(\h1F), I_HALT>>),
      Image(PC_START, <<I_TRAP(\hFF)>>) }

\* files that are no program: their length, their origin
LoaderImages ==
    { <<>>,
      <<\h30>>,
      Image(PC_START, <<>>),
      Image(PC_START, <<\h1234, \hABCD>>),
      Image(PC_START, <<\h1234>>) \o <<\h56>>,
      Image(0, <<\h1234, \hABCD>>),
      Image(\hFFFF, <<\h8000>>),
      Image(\hFFFF, <<\h8000, \h1234>>) }

ImageFiles ==
    ArithmeticImages \cup LoadStoreImages \cup KeyboardImages
    \cup ControlImages \cup TrapImages \cup LoaderImages

InputBytes == {0, 65}

RECURSIVE SeqsUpTo(_, _)
\* the sequences over S of length at most n
SeqsUpTo(S, n) ==
    IF n = 0 THEN {<<>>}
    ELSE LET shorter == SeqsUpTo(S, n - 1)
         IN  shorter \cup {Append(s, x) : s \in shorter, x \in S}

(***************************************************************************)
(* main.                                                                   *)
(***************************************************************************)
EmptyMem == [a \in {} |-> 0]

Init ==
    /\ reg = NewReg
    /\ mem = EmptyMem
    /\ oob = 0
    /\ stdin \in SeqsUpTo(InputBytes, MaxInput)
    /\ stdout = <<>>
    /\ status = "load"
    /\ overflow_checks \in BOOLEAN
    /\ nimages = 0
    /\ result = 0
    /\ image = <<>>
    /\ instruction = -1
    /\ op = ""
    /\ reads = <<>>
    /\ polls = <<>>
    /\ steps = 0
    /\ se_x = 0
    /\ se_bits = 1
    /\ se_ret = 0
    /\ se_done = TRUE

\* one round of the loop over the image arguments
LoadImage(file) ==
    /\ status = "load"
    /\ nimages < MaxImages
    /\ LET r == read_image(mem, file)
       IN  /\ mem' = r.mem
           /\ oob' = oob + r.oob
           /\ result' = r.result
           /\ status' = IF r.ok THEN "load" ELSE "panic"
           /\ stdout' = IF ~r.ok THEN stdout
                        ELSE IF r.result = 0
                             THEN stdout \o TXT_FAILED_READ \o <<10>>
                             ELSE stdout \o TXT_READ_COUNT
                                         \o Decimal(r.result) \o <<10>>
    /\ nimages' = nimages + 1
    /\ image' = file
    /\ UNCHANGED <<reg, stdin, overflow_checks, instruction, op, reads, polls,
                   steps, se_vars>>

\* the machine at the head of the run loop
Machine ==
    [reg |-> reg, mem |-> mem, stdin |-> stdin, stdout |-> stdout,
     status |-> "run", reads |-> <<>>, polls |-> <<>>]

\* the fetch: the read at PC, then PC += 1 in u16
fetch(S) ==
    LET rd == mem_read(S, S.reg[R_PC])
    IN  IF rd.s.status # "run"
        THEN [s |-> rd.s, instruction |-> -1]
        ELSE IF overflow_checks /\ rd.s.reg[R_PC] + 1 >= WORD_MOD
             THEN [s |-> panic(rd.s), instruction |-> rd.val]
             ELSE [s |-> [rd.s EXCEPT !.reg[R_PC] = WrapAdd(@, 1)],
                   instruction |-> rd.val]

Fetched == fetch(Machine)

\* a run loop that goes on after the HALT trap
CanStep_after_halt ==
    /\ \/ status = "load" /\ nimages >= 1
       \/ status \in {"run", "halt"}
    /\ steps < MaxSteps

\* the run loop is entered once the images are read
CanStep ==
    /\ \/ status = "load" /\ nimages >= 1
       \/ status = "run"
    /\ steps < MaxSteps

Commit(S, instr, handler) ==
    /\ op' = handler
    /\ reg' = S.reg
    /\ mem' = S.mem
    /\ stdin' = S.stdin
    /\ stdout' = S.stdout
    /\ status' = S.status
    /\ reads' = S.reads
    /\ polls' = S.polls
    /\ instruction' = instr
    /\ steps' = steps + 1
    /\ UNCHANGED <<oob, overflow_checks, nimages, result, image, se_vars>>

\* the opcode the fetched word decodes to
Decoded == Operators_from(Shr(Fetched.instruction, 12))

Dispatch(opcode) ==
    /\ CanStep
    /\ Fetched.s.status = "run"
    /\ Decoded = opcode

\* the fetch panics: end of input on a keyboard poll, or PC overflows
FetchPanic ==
    /\ CanStep
    /\ Fetched.s.status # "run"
    /\ Commit(Fetched.s, Fetched.instruction, "")

ExecBR ==
    /\ Dispatch("BR")
    /\ Commit(br(Fetched.s, Fetched.instruction), Fetched.instruction, "BR")

ExecADD ==
    /\ Dispatch("ADD")
    /\ Commit(add(Fetched.s, Fetched.instruction), Fetched.instruction, "ADD")

ExecLD ==
    /\ Dispatch("LD")
    /\ Commit(ld(Fetched.s, Fetched.instruction), Fetched.instruction, "LD")

ExecST ==
    /\ Dispatch("ST")
    /\ Commit(st(Fetched.s, Fetched.instruction), Fetched.instruction, "ST")

ExecJSR ==
    /\ Dispatch("JSR")
    /\ Commit(jsr(Fetched.s, Fetched.instruction), Fetched.instruction, "JSR")

ExecAND ==
    /\ Dispatch("AND")
    /\ Commit(and(Fetched.s, Fetched.instruction), Fetched.instruction, "AND")

ExecLDR ==
    /\ Dispatch("LDR")
    /\ Commit(ldr(Fetched.s, Fetched.instruction), Fetched.instruction, "LDR")

ExecSTR ==
    /\ Dispatch("STR")
    /\ Commit(str(Fetched.s, Fetched.instruction), Fetched.instruction, "STR")

ExecRTI ==
    /\ Dispatch("RTI")
    /\ Commit(Fetched.s, Fetched.instruction, "RTI")

ExecNOT ==
    /\ Dispatch("NOT")
    /\ Commit(not(Fetched.s, Fetched.instruction), Fetched.instruction, "NOT")

ExecLDI ==
    /\ Dispatch("LDI")
    /\ Commit(ldi(Fetched.s, Fetched.instruction), Fetched.instruction, "LDI")

ExecSTI ==
    /\ Dispatch("STI")
    /\ Commit(sti(Fetched.s, Fetched.instruction), Fetched.instruction, "STI")

ExecJMP ==
    /\ Dispatch("JMP")
    /\ Commit(jmp(Fetched.s, Fetched.instruction), Fetched.instruction, "JMP")

ExecRES ==
    /\ Dispatch("RES")
    /\ Commit(Fetched.s, Fetched.instruction, "RES")

ExecLEA ==
    /\ Dispatch("LEA")
    /\ Commit(lea(Fetched.s, Fetched.instruction), Fetched.instruction, "LEA")

ExecTRAP ==
    /\ Dispatch("TRAP")
    /\ Commit(trap(Fetched.s, Fetched.instruction), Fetched.instruction, "TRAP")

Next ==
    \/ \E file \in ImageFiles : LoadImage(file)
    \/ FetchPanic
    \/ ExecBR
    \/ ExecADD
    \/ ExecLD
    \/ ExecST
    \/ ExecJSR
    \/ ExecAND
    \/ ExecLDR
    \/ ExecSTR
    \/ ExecRTI
    \/ ExecNOT
    \/ ExecLDI
    \/ ExecSTI
    \/ ExecJMP
    \/ ExecRES
    \/ ExecLEA
    \/ ExecTRAP

Spec == Init /\ [][Next]_vars

(***************************************************************************)
(* sign_extend on its own, on values and bit counts no handler passes.     *)
(***************************************************************************)
MaxSEValue == 40

SEValues ==
    (0 .. MaxSEValue)
    \cup {2 ^ k : k \in 0 .. 15}
    \cup {2 ^ k - 1 : k \in 1 .. 16}
    \cup {WORD_MOD - 1 - 2 ^ k : k \in 0 .. 15}
    \cup {\h8001, \hAAAA, \h5555, \hFF00, \h00FF, \hF0F0}

InitSE ==
    /\ reg = NewReg
    /\ mem = EmptyMem
    /\ oob = 0
    /\ stdin = <<>>
    /\ stdout = <<>>
    /\ status = "load"
    /\ overflow_checks \in BOOLEAN
    /\ nimages = 0
    /\ result = 0
    /\ image = <<>>
    /\ instruction = -1
    /\ op = ""
    /\ reads = <<>>
    /\ polls = <<>>
    /\ steps = 0
    /\ se_x \in SEValues
    /\ se_bits \in 1 .. 16
    /\ se_ret = 0
    /\ se_done = FALSE

CallSignExtend ==
    /\ ~se_done
    /\ se_ret' = sign_extend(se_x, se_bits)
    /\ se_done' = TRUE
    /\ UNCHANGED <<machine_vars, overflow_checks, se_x, se_bits>>

NextSE == CallSignExtend

SpecSE == InitSE /\ [][NextSE]_vars

(***************************************************************************)
(* The claims.  Their arithmetic is stated with div and mod, apart from    *)
(* the bit operators of the model.                                         *)
(***************************************************************************)
\* bits hi..lo of word w
Bits(w, hi, lo) == (w \div (2 ^ lo)) % (2 ^ (hi - lo + 1))

\* the two's-complement sign extension to 16 bits of the low b bits of v
SignExtendMath(v, b) ==
    LET low == v % (2 ^ b)
    IN  IF low >= 2 ^ (b - 1) THEN low + WORD_MOD - 2 ^ b ELSE low

\* the flag pattern of a register value: ZRO, NEG or POS
FlagOf(v) == IF v = 0 THEN 2 ELSE IF v >= 32768 THEN 4 ELSE 1

\* C1: for every 16-bit v and every bit width b in 1..16, sign_extend(v, b)
\* returns the 16-bit sign extension of the low b bits of v, whatever the
\* bits of v above bit b-1 are, and never fails.
\* It is stated here for the values that have no bit set above bit b-1.
C1_SignExtendEveryWidth ==
    (se_done /\ se_x < 2 ^ se_bits) => se_ret = SignExtendMath(se_x, se_bits)

\* a step of the run loop
Stepped == steps' = steps + 1

\* the PC after the fetch of the step
PostFetchPC == (reg[R_PC] + 1) % WORD_MOD

\* the handlers that end in update_flags
FlagOps == {"ADD", "AND", "NOT", "LD", "LDR", "LDI", "LEA"}

\* C2: after every instruction that defines a destination register (ADD,
\* AND, NOT, LD, LDR, LDI, LEA), COND holds exactly one of POS=1, ZRO=2,
\* NEG=4, computed from the value the destination register then holds.
C2_FlagsFollowDestination ==
    [][(Stepped /\ op' \in FlagOps /\ status' = "run")
         => reg'[R_COND] = FlagOf(reg'[Bits(instruction', 11, 9)])]_vars

C2_Witness ==
    /\ op = "LDI"
    /\ status = "run"
    /\ reg[Bits(instruction, 11, 9)] >= 32768
    /\ reg[R_COND] = 4

\* C3: HALT is final: once TRAP x25 executes the machine is halted, and
\* from then on nothing is fetched or executed and registers and memory
\* never change, whatever follows the HALT in memory.
C3_HaltIsFinal ==
    [][/\ (Stepped /\ op' = "TRAP" /\ Bits(instruction', 7, 0) = 37)
            => status' = "halt"
       /\ status = "halt"
            => UNCHANGED <<reg, mem, status, steps, instruction, op,
                           stdin, stdout>>]_vars

C3_Witness ==
    /\ status = "halt"
    /\ op = "TRAP"
    /\ MemGet(mem, reg[R_PC]) # 0

\* C4: LDI performs two indirections for every post-fetch PC P, offset and
\* memory content: with A = memory[(P + sext9(offset)) mod 2^16] and
\* X = memory[A] it loads X into the destination register, sets COND from
\* X and does not fail, also when the offset is negative.  It is stated
\* here for the reads that stay off the keyboard-status address.
C4_LdiNeverFails ==
    [][LET w == instruction'
           addr == (PostFetchPC + SignExtendMath(Bits(w, 8, 0), 9)) % WORD_MOD
           A == MemGet(mem, addr)
           X == MemGet(mem, A)
       IN  (Stepped /\ op' = "LDI" /\ addr # MR_KBSR /\ A # MR_KBSR)
             => /\ status' = "run"
                /\ reg'[Bits(w, 11, 9)] = X
                /\ reg'[R_COND] = FlagOf(X)]_vars

\* C5: a fetched word with opcode RTI (8) or RES (13) is a no-op at every
\* PC: R0-R7, COND and memory are unchanged and PC is advanced by one.  It
\* is stated here for every PC but the keyboard-status address, where the
\* fetch is itself a poll.
C5_RtiResNoOpEverywhere ==
    [][(/\ Stepped
        /\ instruction' # -1
        /\ Bits(instruction', 15, 12) \in {8, 13}
        /\ reg[R_PC] # MR_KBSR)
         => /\ status' = "run"
            /\ \A r \in (0 .. 7) \cup {R_COND} : reg'[r] = reg[r]
            /\ reg'[R_PC] = PostFetchPC
            /\ mem' = mem]_vars

\* C6 as claimed: after any instruction that writes a register r, JSR and
\* TRAP (R7) and the GETC and IN traps (R0) included, COND is the flag of
\* the new value of r.
C6_FlagsAfterAnyRegisterWrite ==
    [][LET w == instruction'
           written == IF op' \in FlagOps THEN {Bits(w, 11, 9)}
                      ELSE IF op' = "TRAP" /\ Bits(w, 7, 0) \in {32, 35}
                           THEN {R_R7, R_R0}
                           ELSE {R_R7}
       IN  (Stepped /\ op' \in FlagOps \cup {"JSR", "TRAP"} /\ status' # "panic")
             => \A r \in written : reg'[R_COND] = FlagOf(reg'[r])]_vars

\* C6 as amended: COND is the flag of the new value of r after the
\* instructions that write a destination register (ADD, AND, NOT, LD, LDR,
\* LDI, LEA); JSR and TRAP write R7 (GETC and IN also R0) and leave COND as
\* it was.
C6_FlagsOnlyAfterDestinationWrite ==
    [][/\ (Stepped /\ op' \in FlagOps /\ status' = "run")
            => reg'[R_COND] = FlagOf(reg'[Bits(instruction', 11, 9)])
       /\ (Stepped /\ op' \in {"JSR", "TRAP"})
            => /\ reg'[R_R7] = PostFetchPC
               /\ reg'[R_COND] = reg[R_COND]]_vars

C6_Witness ==
    /\ op = "JSR"
    /\ status = "run"
    /\ reg[R_R7] \in 1 .. 32767
    /\ reg[R_COND] = 4

\* C7: loading an image of origin O and n data words stores the n words,
\* in host byte order, at O..O+n-1, stores nothing else, and reports a
\* loaded count of n.
C7_LoadReportsWordCount ==
    (/\ nimages = 1
     /\ status = "load"
     /\ steps = 0
     /\ Len(image) >= 2
     /\ Len(image) % 2 = 0
     /\ image[1] * 256 + image[2] + (Len(image) - 2) \div 2 <= MEM_MAX)
      => LET O == image[1] * 256 + image[2]
             n == (Len(image) - 2) \div 2
         IN  /\ \A i \in 0 .. (n - 1) :
                   MemGet(mem, O + i) = image[2 * i + 3] * 256 + image[2 * i + 4]
             /\ DOMAIN mem \subseteq O .. (O + n - 1)
             /\ result = n

IsStatusRead(r) == r.addr = MR_KBSR

\* C8: every read of the keyboard-status address through mem_read polls
\* the input exactly once and returns the status that poll wrote; no other
\* read and no write polls.  Per step: the polls are as many as the reads
\* of that address, and each such read returned what its poll wrote.
C8_StatusReadsPoll ==
    LET status_reads == SelectSeq(reads, IsStatusRead)
    IN  /\ Len(polls) = Len(status_reads)
        /\ \A i \in 1 .. Len(polls) : status_reads[i].val = polls[i]

C8_Witness ==
    /\ op = "LDI"
    /\ Len(reads) = 3
    /\ reads[2].addr = MR_KBSR
    /\ reads[2].val = 32768
    /\ polls = <<32768>>

\* C9: a TRAP whose low 8 bits are not x20..x25 is fatal: it sets
\* R7 := PC (the post-fetch PC), reports the invalid instruction and ends
\* the run; nothing else changes, then or later.
C9_InvalidTrapIsFatal ==
    [][/\ (Stepped /\ op' = "TRAP" /\ Bits(instruction', 7, 0) \notin 32 .. 37)
            => /\ status' = "bad_trap"
               /\ reg' = [reg EXCEPT ![R_PC] = PostFetchPC,
                                     ![R_R7] = PostFetchPC]
               /\ mem' = mem
               /\ stdin' = stdin
               /\ stdout' = stdout \o TXT_INVALID
       /\ status = "bad_trap"
            => UNCHANGED <<reg, mem, status, steps, instruction, op,
                           stdin, stdout>>]_vars

C9_Witness ==
    /\ status = "bad_trap"
    /\ Bits(instruction, 7, 0) = 38
    /\ reg[R_R7] = reg[R_PC]
    /\ MemGet(mem, reg[R_PC]) # 0

\* C10: ADD computes dest = (src1 + operand) mod 2^16, the operand being
\* the sign-extended bits 4:0 when bit 5 is set and register bits 2:0
\* otherwise, and sets COND from dest; with the immediate x1F and a source
\* holding 5 the result is 4 and COND is POS.
C10_AddWraps ==
    [][LET w == instruction'
           dest == Bits(w, 11, 9)
           src1 == Bits(w, 8, 6)
           operand == IF Bits(w, 5, 5) = 1
                      THEN SignExtendMath(Bits(w, 4, 0), 5)
                      ELSE reg[Bits(w, 2, 0)]
       IN  (Stepped /\ op' = "ADD")
             => /\ status' = "run"
                /\ reg'[dest] = (reg[src1] + operand) % WORD_MOD
                /\ reg'[R_COND] = FlagOf(reg'[dest])
                /\ (Bits(w, 5, 0) = 63 /\ reg[src1] = 5)
                     => (reg'[dest] = 4 /\ reg'[R_COND] = 1)]_vars

C10_Witness ==
    /\ op = "ADD"
    /\ Bits(instruction, 5, 0) = 63
    /\ reg[Bits(instruction, 8, 6)] = 5
    /\ reg[Bits(instruction, 11, 9)] = 4
    /\ reg[R_COND] = 1

RECURSIVE StringEnd(_, _)
\* the first address at or after a that holds a zero word, WORD_MOD if none
StringEnd(m, a) ==
    IF a >= WORD_MOD THEN WORD_MOD
    ELSE IF MemGet(m, a) = 0 THEN a
         ELSE StringEnd(m, a + 1)

\* the low bytes of the words at a .. z-1, in address order
LowBytes(m, a, z) == [i \in 1 .. (z - a) |-> MemGet(m, a + i - 1) % 256]

\* C11: PUTS (trap x22): for every R0 and memory content with a zero word
\* at or after address R0, PUTS writes to the output, in address order,
\* exactly the low byte of each word from R0 up to the first zero word and
\* nothing for the terminator, and returns to the run loop with R0 and
\* memory unchanged and R7 = PC.  It is stated here for the strings that
\* do not run over the keyboard-status address.
C11_PutsWritesLowBytes ==
    [][LET w == instruction'
           z == StringEnd(mem, reg[R_R0])
       IN  (/\ Stepped
            /\ op' = "TRAP"
            /\ Bits(w, 7, 0) = 34
            /\ reg[R_PC] # MR_KBSR
            /\ z < WORD_MOD
            /\ MR_KBSR \notin reg[R_R0] .. z)
             => /\ status' = "run"
                /\ stdout' = stdout \o LowBytes(mem, reg[R_R0], z)
                /\ reg'[R_R0] = reg[R_R0]
                /\ reg'[R_R7] = PostFetchPC
                /\ reg'[R_PC] = PostFetchPC
                /\ mem' = mem]_vars

\* C12: the IN trap (vector x23) writes a prompt to the output, reads one
\* byte from the input, echoes that byte to the output and stores it
\* zero-extended into R0; the GETC trap (vector x20) reads one byte into R0
\* and writes nothing to the output.  The prompt is any non-empty text, and
\* the echo is the last byte written.
C12_InEchoesGetcSilent ==
    [][LET w == instruction'
       IN  (/\ Stepped
            /\ op' = "TRAP"
            /\ reg[R_PC] # MR_KBSR
            /\ stdin # <<>>)
             => /\ Bits(w, 7, 0) = 35
                     => /\ status' = "run"
                        /\ reg'[R_R0] = Head(stdin)
                        /\ stdin' = Tail(stdin)
                        /\ Len(stdout') >= Len(stdout) + 2
                        /\ SubSeq(stdout', 1, Len(stdout)) = stdout
                        /\ stdout'[Len(stdout')] = Head(stdin)
                /\ Bits(w, 7, 0) = 32
                     => /\ status' = "run"
                        /\ reg'[R_R0] = Head(stdin)
                        /\ stdin' = Tail(stdin)
                        /\ stdout' = stdout]_vars

\* C13: the fetch increments PC by 1 modulo 2^16: when an instruction is
\* fetched at PC = xFFFF, PC becomes x0000 and the run loop goes on to
\* execute it, without any error or abort.  PC is compared after the
\* handlers that do not write it.
C13_FetchWrapsAtTop ==
    [][(Stepped /\ reg[R_PC] = WORD_MOD - 1)
         => /\ op' # ""
            /\ op' \notin {"BR", "JSR", "JMP"} => reg'[R_PC] = 0
            /\ op' \in {"RTI", "RES", "LEA"} => status' = "run"]_vars

\* base + sign-extended offset, modulo 2^16
OffsetAddr(base, field, bits) == (base + SignExtendMath(field, bits)) % WORD_MOD

\* C14: every handler that forms an address or target as base +
\* sign-extended offset (BR, LD, ST, JSR, LDR, STR, LDI, STI, LEA) uses
\* (base + offset) mod 2^16 and never faults on a sum that exceeds 16 bits;
\* LDR and LDI with a negative offset reach the address below the base as
\* STR and LD/STI do.  It is stated here for the steps whose reads stay off
\* the keyboard-status address, and without LDI, whose sum C4 is about.
C14_OffsetSumsWrap ==
    [][LET w == instruction'
           pc9 == OffsetAddr(PostFetchPC, Bits(w, 8, 0), 9)
           pc11 == OffsetAddr(PostFetchPC, Bits(w, 10, 0), 11)
           base6 == OffsetAddr(reg[Bits(w, 8, 6)], Bits(w, 5, 0), 6)
           dr == Bits(w, 11, 9)
       IN  (/\ Stepped
            /\ op' \in {"BR", "LD", "ST", "JSR", "LDR", "STR", "STI", "LEA"}
            /\ \A i \in 1 .. Len(reads') : reads'[i].addr # MR_KBSR)
             => /\ status' = "run"
                /\ (op' = "BR" /\ reg'[R_PC] # PostFetchPC) => reg'[R_PC] = pc9
                /\ op' = "LD" => reg'[dr] = MemGet(mem, pc9)
                /\ op' = "ST" => mem' = MemSet(mem, pc9, reg[dr])
                /\ (op' = "JSR" /\ Bits(w, 11, 11) = 1) => reg'[R_PC] = pc11
                /\ op' = "LDR" => reg'[dr] = MemGet(mem, base6)
                /\ op' = "STR" => mem' = MemSet(mem, base6, reg[dr])
                /\ op' = "STI" => mem' = MemSet(mem, MemGet(mem, pc9), reg[dr])
                /\ op' = "LEA" => reg'[dr] = pc9]_vars

\* C15: on a read of the keyboard-status address, if an input byte is
\* available then, for every byte value, the status word becomes x8000 and
\* the keyboard-data word becomes that byte zero-extended; if none is
\* available the status word becomes 0, the keyboard-data word is left
\* unchanged and the machine keeps running.  It is stated here for the
\* steps that poll once and whose handler writes no memory.
C15_PollResult ==
    [][(/\ Stepped
        /\ Len(polls') = 1
        /\ op' \notin {"ST", "STR", "STI"})
         => /\ stdin # <<>>
                 => /\ MemGet(mem', MR_KBSR) = 32768
                    /\ MemGet(mem', MR_KBDR) = Head(stdin)
                    /\ stdin' = Tail(stdin)
            /\ stdin = <<>>
                 => /\ status' # "panic"
                    /\ MemGet(mem', MR_KBSR) = 0
                    /\ MemGet(mem', MR_KBDR) = MemGet(mem, MR_KBDR)]_vars

\* the sixteen opcodes
Opcodes ==
    {"BR", "ADD", "LD", "ST", "JSR", "AND", "LDR", "STR", "RTI", "NOT", "LDI",
     "STI", "JMP", "RES", "LEA", "TRAP"}

\* the step met the end of the input at a read
EndOfInput ==
    \/ \E i \in 1 .. Len(polls') : polls'[i] = -1
    \/ op' = "TRAP" /\ Bits(instruction', 7, 0) \in {32, 35} /\ stdin = <<>>

\* C16: the opcode decode is total and the run loop has exactly two exits:
\* the top 4 bits of every fetched word decode to one of the 16 opcodes, so
\* the decode-failure branch is never taken, and the machine leaves the run
\* loop only by executing TRAP with vector HALT or TRAP with an unrecognized
\* vector.  It is stated here for the steps in which no read meets the end
\* of the input.
C16_TwoExits ==
    [][(Stepped /\ ~EndOfInput)
         => /\ instruction' # -1
                 => Operators_from(Shr(instruction', 12)) \in Opcodes
            /\ status' # "run"
                 => /\ op' = "TRAP"
                    /\ status' \in {"halt", "bad_trap"}
                    /\ status' = "halt" <=> Bits(instruction', 7, 0) = 37]_vars

\* C17: JSR/JSRR is two assignments in sequence: first R7 := PC (the
\* post-fetch PC), then, if bit 11 is set, PC := (PC + sign_extend(bits
\* 10:0, 11)) mod 2^16, otherwise PC := the value register bits 8:6 holds
\* after R7 was written: the pre-instruction value for R0-R6, the
\* post-fetch PC for R7.  COND and R0-R6 are unchanged.
C17_JsrLinksThenJumps ==
    [][LET w == instruction'
           base == Bits(w, 8, 6)
       IN  (Stepped /\ op' = "JSR")
             => /\ status' = "run"
                /\ reg'[R_R7] = PostFetchPC
                /\ Bits(w, 11, 11) = 1
                     => reg'[R_PC] = OffsetAddr(PostFetchPC, Bits(w, 10, 0), 11)
                /\ Bits(w, 11, 11) = 0
                     => reg'[R_PC] = IF base = R_R7 THEN PostFetchPC
                                     ELSE reg[base]
                /\ reg'[R_COND] = reg[R_COND]
                /\ \A r \in 0 .. 6 : reg'[r] = reg[r]]_vars

C17_Witness ==
    /\ op = "JSR"
    /\ status = "run"
    /\ Bits(instruction, 11, 11) = 0
    /\ Bits(instruction, 8, 6) = R_R7
    /\ reg[R_R7] = PC_START + 3
    /\ reg[R_PC] = reg[R_R7]

\* C18: image loading stays inside the address space: for every origin O
\* and every image length, the load stores data words only at O..xFFFF;
\* when the image has more than 65536 - O data words the excess is not
\* stored, nothing is written outside the 65536-word memory array, and the
\* words below O are unchanged.
C18_LoadStaysInside ==
    (nimages = 1 /\ steps = 0 /\ Len(image) >= 2)
      => LET O == image[1] * 256 + image[2]
         IN  /\ oob = 0
             /\ status = "load"
             /\ DOMAIN mem \subseteq O .. (WORD_MOD - 1)

\* C19: BR changes PC if and only if (instruction bits 11:9) AND COND is
\* non-zero, and then PC becomes (post-fetch PC + sign_extend(bits 8:0, 9))
\* mod 2^16; otherwise PC stays at the post-fetch value.  Either way BR
\* leaves R0-R7, COND and memory unchanged, and a BR word with bits
\* 11:9 = 000 never branches.  Memory is compared for every PC but the
\* keyboard-status address, where the fetch is itself a poll.
C19_BranchOnFlags ==
    [][LET w == instruction'
           nzp == Bits(w, 11, 9)
           \* nzp AND COND, bit by bit
           common == {b \in 0 .. 2 : Bits(nzp, b, b) = 1
                                     /\ Bits(reg[R_COND], b, b) = 1}
       IN  (Stepped /\ op' = "BR")
             => /\ status' = "run"
                /\ reg'[R_PC] = IF common # {}
                                THEN OffsetAddr(PostFetchPC, Bits(w, 8, 0), 9)
                                ELSE PostFetchPC
                /\ nzp = 0 => reg'[R_PC] = PostFetchPC
                /\ \A r \in (0 .. 7) \cup {R_COND} : reg'[r] = reg[r]
                /\ reg[R_PC] # MR_KBSR => mem' = mem]_vars

C19_Witness ==
    /\ op = "BR"
    /\ status = "run"
    /\ Bits(instruction, 11, 9) = 2
    /\ Bits(instruction, 8, 0) = 511
    /\ reg[R_COND] = FL_ZRO
    /\ reg[R_PC] = PC_START + 3

\* C20: in every reachable state COND is one of 0, 1, 2, 4.  COND is 0 from
\* machine creation until the first flag-updating instruction (ADD, AND,
\* NOT, LD, LDR, LDI, LEA) executes, and during that prefix no BR is taken,
\* not even one with bits 11:9 = 111; from then on COND is always exactly
\* one of POS=1, ZRO=2, NEG=4, because no other instruction writes COND.
C20_CondStates ==
    /\ reg[R_COND] = 0
    /\ [](reg[R_COND] \in {0, FL_POS, FL_ZRO, FL_NEG})
    /\ [][LET flagged == Stepped /\ op' \in FlagOps /\ status' = "run"
          IN  /\ flagged => reg'[R_COND] \in {FL_POS, FL_ZRO, FL_NEG}
              /\ ~flagged => reg'[R_COND] = reg[R_COND]
              /\ (Stepped /\ op' = "BR" /\ reg[R_COND] = 0)
                   => reg'[R_PC] = PostFetchPC]_vars

C20_Witness ==
    /\ op = "BR"
    /\ status = "run"
    /\ Bits(instruction, 11, 9) = 7
    /\ Bits(instruction, 8, 0) # 0
    /\ reg[R_COND] = 0
    /\ reg[R_PC] = PC_START + 1

=============================================================================
